---- MODULE Spec2Model ----
(***************************************************************************)
(* pydantic-argparse: a declarative, typed argument parser.                *)
(*                                                                         *)
(* The module models                                                       *)
(*   - ArgumentParser.__init__ / _add_model / _commands   (construction),  *)
(*   - ArgumentParser.parse_typed_args / error             (one parse),    *)
(*   - _NestedArgumentParser.__init__                 (rebuild / prune /   *)
(*                                                     resolve),           *)
(*   - utils.pydantic.as_validator                    (the converter).     *)
(***************************************************************************)
EXTENDS Integers, Sequences, FiniteSets, TLC

(***************************************************************************)
(* Values.  Every Python value the model handles has the same record       *)
(* shape, so that any two values can be compared.                          *)
(*   t = "none" | "str" | "int" | "dict" | "list" | "obj"                  *)
(*   items of a dict / obj: sequence of <<key, value>> in insertion order  *)
(*   items of a list: sequence of <<"", value>>                            *)
(*   s of an obj: the name of the model it is an instance of               *)
(***************************************************************************)
NoneV == [t |-> "none", s |-> "", n |-> 0, items |-> <<>>]
StrV(x) == [t |-> "str", s |-> x, n |-> 0, items |-> <<>>]
IntV(i) == [t |-> "int", s |-> "", n |-> i, items |-> <<>>]
DictV(its) == [t |-> "dict", s |-> "", n |-> 0, items |-> its]
ListV(its) == [t |-> "list", s |-> "", n |-> 0, items |-> its]
ObjV(m, its) == [t |-> "obj", s |-> m, n |-> 0, items |-> its]

Keys(its) == [i \in 1..Len(its) |-> its[i][1]]
KeySet(its) == {its[i][1] : i \in 1..Len(its)}
HasKey(its, k) == \E i \in 1..Len(its) : its[i][1] = k
Lookup(its, k) == its[CHOOSE i \in 1..Len(its) : its[i][1] = k][2]
\* Python's d[k] = v: an existing key keeps its position, a new key is appended
DictSet(its, k, v) ==
    IF HasKey(its, k)
    THEN [i \in 1..Len(its) |-> IF its[i][1] = k THEN <<k, v>> ELSE its[i]]
    ELSE Append(its, <<k, v>>)

(***************************************************************************)
(* Schemas.  A model is a sequence of field descriptors in declaration     *)
(* order (PydanticField.parse_model).  type is "str", "int", "list" or     *)
(* "model"; for "model" the field `model` names the nested schema.         *)
(* caster names the converter installed for the field ("" for none).       *)
(***************************************************************************)
Scalar(nm, ty, req, dflt, cst) ==
    [name |-> nm, title |-> "", type |-> ty, model |-> "", required |-> req,
     default |-> dflt, caster |-> cst]
Nested(nm, ttl, m, req) ==
    [name |-> nm, title |-> ttl, type |-> "model", model |-> m, required |-> req,
     default |-> NoneV, caster |-> ""]

ModelNames ==
    {"Flat", "Grouped", "Sub", "Deep", "Outer", "Inner",
     "Cli", "Start", "Stop", "Tool", "Build", "Opts", "Deploy", "Late",
     "Loose", "Shell"}

Fields(m) ==
    CASE m = "Flat" ->
           << Scalar("name", "str", TRUE, NoneV, "identity"),
              Scalar("count", "int", FALSE, IntV(0), ""),
              Scalar("tags", "list", FALSE, ListV(<<>>), "") >>
      [] m = "Grouped" ->
           << Scalar("label", "str", FALSE, StrV("dflt"), ""),
              Nested("sub", "", "Sub", TRUE) >>
      [] m = "Sub" ->
           << Scalar("level", "int", FALSE, IntV(1), ""),
              Scalar("tag", "str", FALSE, StrV("t"), "identity") >>
      [] m = "Deep" ->
           << Nested("outer", "", "Outer", TRUE) >>
      [] m = "Outer" ->
           << Scalar("width", "int", FALSE, IntV(1), ""),
              Nested("inner", "", "Inner", TRUE) >>
      [] m = "Inner" ->
           << Scalar("leaf", "int", FALSE, IntV(0), "") >>
      [] m = "Cli" ->
           << Scalar("force", "str", FALSE, StrV("no"), ""),
              Nested("start", "", "Start", FALSE),
              Nested("stop", "", "Stop", FALSE) >>
      [] m = "Start" ->
           << Scalar("port", "int", TRUE, NoneV, "") >>
      [] m = "Stop" ->
           << Scalar("force", "str", FALSE, StrV("no"), "") >>
      [] m = "Tool" ->
           << Nested("build", "", "Build", FALSE),
              Nested("opts", "options", "Opts", TRUE),
              Nested("deploy", "", "Deploy", FALSE) >>
      [] m = "Build" ->
           << Scalar("target", "str", TRUE, NoneV, "") >>
      [] m = "Opts" ->
           << Scalar("max_jobs", "int", FALSE, IntV(1), "") >>
      [] m = "Deploy" ->
           << Scalar("env", "str", FALSE, StrV("dev"), ""),
              Nested("extra", "", "Opts", TRUE) >>
      [] m = "Late" ->
           << Nested("opts", "", "Opts", TRUE),
              Nested("start", "", "Start", FALSE) >>
      [] m = "Loose" ->
           << Nested("outer", "", "Shell", TRUE) >>
      [] m = "Shell" ->
           << [Nested("inner", "", "Inner", FALSE) EXCEPT
                  !.default = ObjV("Inner", << <<"leaf", IntV(0)>> >>)] >>

\* models whose model_config json_schema_extra carries subcommand=True
SubcommandModels == {"Start", "Stop", "Build", "Deploy"}

(***************************************************************************)
(* utils.types.is_field_a(field, BaseModel) and utils.pydantic.            *)
(* is_subcommand, on the descriptors above.                                *)
(***************************************************************************)
is_model_field(field) == field.type = "model"
is_subcommand(m) == m \in SubcommandModels

\* str.upper and str.replace('_', '-') on the names the schemas use
Upper(x) ==
    CASE x = "sub" -> "SUB" [] x = "outer" -> "OUTER" [] x = "inner" -> "INNER"
      [] x = "options" -> "OPTIONS" [] x = "extra" -> "EXTRA" [] x = "opts" -> "OPTS"
      [] OTHER -> x
Hyphenate(x) == IF x = "max_jobs" THEN "max-jobs" ELSE x
TitleOrName(field) == IF field.title # "" THEN field.title ELSE field.name

\* Argument group names and the exit code (class attributes of ArgumentParser)
COMMANDS == "commands"
HELP == "help"
EXIT_ERROR == 2

VARIABLES
    pc,             \* position of the parser: "construct", "ready", "parsed", ...
    exit_on_error,  \* ArgumentParser.exit_on_error
    root,           \* the model the parser was constructed with
    stack,          \* the active _add_model calls: [model, idx, group]
    action_groups,  \* argparse's _action_groups, titles in order
    subcommands,    \* self._subcommands: [exists, required, choices]
    ndispatchers,   \* number of add_subparsers calls made so far
    arg_groups,     \* self._arg_groups: <<group_name, group_name>> entries
    submodels,      \* self._submodels: <<field name, model>> in insertion order
    registered      \* flags added by parsers.add_field: [dest, group]

VARIABLES
    tokens,         \* args of the current call
    arguments,      \* utils.namespaces.to_dict(namespace)
    config,         \* the validated submodels so far: <<field name, object>>
    root_validated, \* whether self.model.model_validate was called
    root_input,     \* the mapping it was called with
    result,         \* the value returned to the caller
    message,        \* the message handed to error()
    stderr,         \* what the call wrote to sys.stderr, in order
    exit_status,    \* status of the process once exited, else -1
    raised,         \* exception that left the call: [type, text]
    usage_calls     \* number of calls of error() by this parser in the call

callVars == <<tokens, arguments, config, root_validated, root_input, result,
              message, stderr, exit_status, raised, usage_calls>>

VARIABLES
    npc,            \* position of _NestedArgumentParser.__init__
    nmodel,         \* self.model
    ntokens,        \* the token list the namespace was parsed from
    nargs,          \* self.args
    nsubcommand,    \* self.subcommand
    rebuilt,        \* self.schema as _get_nested_model_fields returned it
    pruned,         \* self.schema as _remove_null_leaves returned it
    schema,         \* self.schema
    command         \* the name the top-level mapping is filtered by

nestVars == <<npc, nmodel, ntokens, nargs, nsubcommand, rebuilt, pruned,
              schema, command>>

VARIABLES
    vpc,            \* position of one application of a converter
    vcaster,        \* the caster it wraps
    vvalue,         \* the value it is applied to
    vresult         \* what the application did: [raises, value]

valVars == <<vpc, vcaster, vvalue, vresult>>

VARIABLES
    tpc,            \* position of one call of is_field_a
    tannotation,    \* field.info.annotation
    ttypes,         \* the types argument: [tuple, items]
    tresult         \* what the call did: [raises, value]

typVars == <<tpc, tannotation, ttypes, tresult>>

ctorVars == <<root, stack, action_groups, subcommands, ndispatchers,
              arg_groups, submodels, registered>>

parserVars == <<pc, exit_on_error, ctorVars, callVars>>

NoDispatcher == [exists |-> FALSE, required |-> FALSE, choices |-> <<>>]

\* Models a parser can be constructed with: the root schemas, and the
\* subcommand variants (parse_field builds a parser of the same class for each)
ParserModels ==
    {"Flat", "Grouped", "Deep", "Loose", "Cli", "Tool", "Late", "Deploy", "Start"}

\* ArgumentParser.__init__ up to the call of _add_model(model)
InitParser ==
    /\ pc = "construct"
    /\ exit_on_error \in BOOLEAN
    /\ root \in ParserModels
    /\ stack = << [model |-> root, idx |-> 1, group |-> ""] >>
    /\ action_groups = << "positional arguments", "options", HELP >>
    /\ subcommands = NoDispatcher
    /\ ndispatchers = 0
    /\ arg_groups = <<>>
    /\ submodels = <<>>
    /\ registered = <<>>

Top == stack[Len(stack)]
TopFields == Fields(Top.model)
Advance(stk) == [stk EXCEPT ![Len(stk)].idx = @ + 1]


\* _commands without the shuffle of the new group to the front
_commands_NoShuffle(sc, ag, nd) ==
    IF ~sc.exists
    THEN [sc |-> [exists |-> TRUE, required |-> TRUE, choices |-> <<>>],
          ag |-> Append(ag, COMMANDS),
          nd |-> nd + 1]
    ELSE [sc |-> sc, ag |-> ag, nd |-> nd]

\* ArgumentParser._commands: the dispatcher is created on the first call only,
\* and its group is moved from the end of _action_groups to the front
_commands(sc, ag, nd) ==
    IF ~sc.exists
    THEN LET added == Append(ag, COMMANDS)
         IN  [sc |-> [exists |-> TRUE, required |-> TRUE, choices |-> <<>>],
              ag |-> <<added[Len(added)]>> \o SubSeq(added, 1, Len(added) - 1),
              nd |-> nd + 1]
    ELSE [sc |-> sc, ag |-> ag, nd |-> nd]

\* _add_model, loop body, else branch: parsers.add_field(parser, field)
AddField ==
    /\ pc = "construct"
    /\ Top.idx <= Len(TopFields)
    /\ ~is_model_field(TopFields[Top.idx])
    /\ registered' = Append(registered,
                            [dest |-> TopFields[Top.idx].name, group |-> Top.group])
    /\ stack' = Advance(stack)
    /\ UNCHANGED <<pc, exit_on_error, root, action_groups, subcommands,
                   ndispatchers, arg_groups, submodels>>
    /\ UNCHANGED <<callVars, nestVars, valVars, typVars>>

\* _add_model, loop body, subcommand branch:
\* parsers.command.parse_field(self._commands(), field)
AddCommand ==
    /\ pc = "construct"
    /\ Top.idx <= Len(TopFields)
    /\ is_model_field(TopFields[Top.idx])
    /\ is_subcommand(TopFields[Top.idx].model)
    /\ LET c == _commands(subcommands, action_groups, ndispatchers)
       IN  /\ subcommands' =
                 [c.sc EXCEPT !.choices = Append(@, TitleOrName(TopFields[Top.idx]))]
           /\ action_groups' = c.ag
           /\ ndispatchers' = c.nd
    /\ stack' = Advance(stack)
    /\ UNCHANGED <<pc, exit_on_error, root, arg_groups, submodels, registered>>
    /\ UNCHANGED <<callVars, nestVars, valVars, typVars>>

\* _add_model, loop body, nested non-subcommand branch up to the recursive call
AddGroup ==
    /\ pc = "construct"
    /\ Top.idx <= Len(TopFields)
    /\ is_model_field(TopFields[Top.idx])
    /\ ~is_subcommand(TopFields[Top.idx].model)
    /\ LET group_name == Upper(TitleOrName(TopFields[Top.idx]))
       IN  /\ action_groups' = Append(action_groups, group_name)
           /\ arg_groups' = DictSet(arg_groups, group_name, group_name)
           /\ stack' = Append(stack, [model |-> TopFields[Top.idx].model,
                                      idx |-> 1, group |-> group_name])
    /\ UNCHANGED <<pc, exit_on_error, root, subcommands, ndispatchers,
                   submodels, registered>>
    /\ UNCHANGED <<callVars, nestVars, valVars, typVars>>

\* _add_model returns: the caller stores the processed model in _submodels
\* under the field's name, or __init__ stores it as self.model
ReturnModel ==
    /\ pc = "construct"
    /\ Top.idx > Len(TopFields)
    /\ IF Len(stack) = 1
       THEN /\ pc' = "ready"
            /\ stack' = <<>>
            /\ UNCHANGED submodels
       ELSE LET caller == stack[Len(stack) - 1]
                field == Fields(caller.model)[caller.idx]
            IN  /\ submodels' = DictSet(submodels, field.name, Top.model)
                /\ stack' = Advance(SubSeq(stack, 1, Len(stack) - 1))
                /\ UNCHANGED pc
    /\ UNCHANGED <<exit_on_error, root, action_groups, subcommands,
                   ndispatchers, arg_groups, registered>>
    /\ UNCHANGED <<callVars, nestVars, valVars, typVars>>

(***************************************************************************)
(* The command line.  utils.arguments.name gives a flag its name; the      *)
(* grammar of a parser is the scalar fields of its model and of the        *)
(* argument groups below it, plus one command per subcommand field.        *)
(***************************************************************************)
FlagName(field) == "--" \o Hyphenate(TitleOrName(field))
CommandName(field) == TitleOrName(field)

RECURSIVE FlatFlags(_)
FlatFlags(m) ==
    LET fs == Fields(m)
        RECURSIVE Go(_)
        Go(i) ==
            IF i > Len(fs) THEN <<>>
            ELSE (IF ~is_model_field(fs[i]) THEN <<fs[i]>>
                  ELSE IF is_subcommand(fs[i].model) THEN <<>>
                  ELSE FlatFlags(fs[i].model)) \o Go(i + 1)
    IN  Go(1)

RECURSIVE CommandFields(_)
CommandFields(m) ==
    LET fs == Fields(m)
        RECURSIVE Go(_)
        Go(i) ==
            IF i > Len(fs) THEN <<>>
            ELSE (IF ~is_model_field(fs[i]) THEN <<>>
                  ELSE IF is_subcommand(fs[i].model) THEN <<fs[i]>>
                  ELSE CommandFields(fs[i].model)) \o Go(i + 1)
    IN  Go(1)

Range(seq) == {seq[i] : i \in 1..Len(seq)}

\* the texts a flag's value is drawn from
ValueTokensFor(field) ==
    CASE field.type = "int" -> {"7", "x"}
      [] field.type = "str" -> {"x", ""}
      [] OTHER -> {"x"}
UnknownFlag == "--bogus"
AllFlagTokens ==
    {FlagName(f) : f \in UNION {Range(FlatFlags(m)) : m \in ModelNames}}
        \cup {UnknownFlag}

(***************************************************************************)
(* The parsing primitive (argparse.parse_args with the repository's        *)
(* SubParsersAction and namespaces.to_dict): the flat mapping of one token *)
(* list, keys in the order the tokens set them, a selected command's       *)
(* arguments nested under the command's name.  Unset flags are absent from *)
(* the mapping (argument_default=SUPPRESS).  A token list the grammar      *)
(* rejects (a required flag or command missing, an unknown flag or         *)
(* command, a flag without its value) is reported through error().         *)
(***************************************************************************)
Missing(m, ns) ==
    \/ \E f \in Range(FlatFlags(m)) : f.required /\ ~HasKey(ns, f.name)
    \/ /\ CommandFields(m) # <<>>
       /\ \A c \in Range(CommandFields(m)) : ~HasKey(ns, CommandName(c))

RECURSIVE ValuesFrom(_, _)
\* the values a nargs='*' flag consumes: every token up to the next flag
ValuesFrom(toks, i) ==
    IF i > Len(toks) \/ toks[i] \in AllFlagTokens THEN <<>>
    ELSE << <<"", StrV(toks[i])>> >> \o ValuesFrom(toks, i + 1)

RECURSIVE ParseLoop(_, _, _, _)
ParseLoop(m, toks, i, ns) ==
    IF i > Len(toks)
    THEN [ok |-> ~Missing(m, ns), ns |-> ns]
    ELSE LET tok == toks[i]
             flags == {f \in Range(FlatFlags(m)) : FlagName(f) = tok}
             cmds == {c \in Range(CommandFields(m)) : CommandName(c) = tok}
         IN  IF flags # {}
             THEN LET f == CHOOSE g \in flags : TRUE
                  IN  IF f.type = "list"
                      THEN LET vals == ValuesFrom(toks, i + 1)
                           IN  ParseLoop(m, toks, i + 1 + Len(vals),
                                         DictSet(ns, f.name, ListV(vals)))
                      ELSE IF i + 1 > Len(toks) \/ toks[i + 1] \in AllFlagTokens
                           THEN [ok |-> FALSE, ns |-> ns]
                           ELSE ParseLoop(m, toks, i + 2,
                                          DictSet(ns, f.name, StrV(toks[i + 1])))
             ELSE IF cmds # {}
             THEN LET c == CHOOSE d \in cmds : TRUE
                      sub == ParseLoop(c.model, toks, i + 1, <<>>)
                      ns2 == DictSet(ns, tok, DictV(sub.ns))
                  IN  [ok |-> sub.ok /\ ~Missing(m, ns2), ns |-> ns2]
             ELSE [ok |-> FALSE, ns |-> ns]

parse_args(m, toks) == ParseLoop(m, toks, 1, <<>>)

(***************************************************************************)
(* The token lists a parser is called with: up to MaxItems items, each a   *)
(* flag with a value, a flag alone, a command, or an unknown flag.         *)
(***************************************************************************)
MaxItems == 3

ItemsOf(m) ==
    UNION {{<<FlagName(f), v>> : v \in ValueTokensFor(f)} :
           f \in Range(FlatFlags(m))}
        \cup {<<FlagName(f)>> : f \in {g \in Range(FlatFlags(m)) :
                                        g.type = "list" \/ g = FlatFlags(m)[1]}}
        \cup {<<CommandName(c)>> : c \in Range(CommandFields(m))}

AllItems(m) ==
    ItemsOf(m) \cup UNION {ItemsOf(c.model) : c \in Range(CommandFields(m))}
        \cup {<<UnknownFlag>>}

RECURSIVE ItemLists(_, _)
ItemLists(items, k) ==
    IF k = 0 THEN {<<>>}
    ELSE LET shorter == ItemLists(items, k - 1)
         IN  shorter \cup {it \o l : it \in items, l \in shorter}

TokenLists(m) == ItemLists(AllItems(m), MaxItems)

(***************************************************************************)
(* utils.pydantic.as_validator: the converter wrapped around a caster.     *)
(* Cast(c, text) is the caster applied to a non-empty text: it returns a   *)
(* value or raises.                                                        *)
(***************************************************************************)
Casters == {"identity", "literal", "upper", "fail"}
Cast(c, text) ==
    CASE c = "identity" -> [raises |-> FALSE, value |-> StrV(text)]
      [] c = "literal" /\ text = "7" -> [raises |-> FALSE, value |-> IntV(7)]
      [] c = "upper" -> [raises |-> FALSE, value |-> StrV(Upper(text))]
      [] OTHER -> [raises |-> TRUE, value |-> NoneV]


\* a converter without the try/except around the caster
as_validator_NoTry(c, value) ==
    IF value.t # "str" THEN [raises |-> FALSE, value |-> value]
    ELSE IF value.s = "" THEN [raises |-> FALSE, value |-> NoneV]
    ELSE Cast(c, value.s)

\* the __validator built by as_validator(field, caster), applied to a value:
\* what it returns, or that it raises
as_validator(c, value) ==
    IF value.t # "str" THEN [raises |-> FALSE, value |-> value]
    ELSE IF value.s = "" THEN [raises |-> FALSE, value |-> NoneV]
    ELSE IF ~Cast(c, value.s).raises THEN [raises |-> FALSE, value |-> Cast(c, value.s).value]
    ELSE [raises |-> FALSE, value |-> value]

(***************************************************************************)
(* Model validation (pydantic's model_validate, non-strict).  A field      *)
(* present in the mapping goes through its converter, when the model       *)
(* carries the parser's validators, and is then coerced to the field's     *)
(* type; an absent field takes its default or, when required, fails.       *)
(* Keys that name no field are ignored.                                    *)
(***************************************************************************)
Fail == [ok |-> FALSE, value |-> NoneV]
Ok(v) == [ok |-> TRUE, value |-> v]

RECURSIVE model_validate(_, _, _)
model_validate(m, its, validators) ==
    LET fs == Fields(m)
        coerce(f, v) ==
            CASE f.type = "str" -> IF v.t = "str" THEN Ok(v) ELSE Fail
              [] f.type = "int" ->
                   IF v.t = "int" THEN Ok(v)
                   ELSE IF v.t = "str" /\ v.s = "7" THEN Ok(IntV(7))
                   ELSE Fail
              [] f.type = "list" -> IF v.t = "list" THEN Ok(v) ELSE Fail
              [] f.type = "model" ->
                   IF v.t = "obj" /\ v.s = f.model THEN Ok(v)
                   ELSE IF v.t = "dict" THEN model_validate(f.model, v.items, FALSE)
                   ELSE Fail
        one(f) ==
            IF HasKey(its, f.name)
            THEN IF validators /\ f.caster # ""
                 THEN LET pre == as_validator(f.caster, Lookup(its, f.name))
                      IN  IF pre.raises THEN Fail ELSE coerce(f, pre.value)
                 ELSE coerce(f, Lookup(its, f.name))
            ELSE IF f.required THEN Fail ELSE Ok(f.default)
        res == [i \in 1..Len(fs) |-> one(fs[i])]
    IN  IF \A i \in 1..Len(fs) : res[i].ok
        THEN Ok(ObjV(m, [i \in 1..Len(fs) |-> <<fs[i].name, res[i].value>>]))
        ELSE Fail

(***************************************************************************)
(* One call of ArgumentParser.parse_typed_args, and ArgumentParser.error.  *)
(***************************************************************************)
NoException == [type |-> "", text |-> ""]
Prog == "prog"
\* f"{self.prog}: error: {message}"
ErrorText(msg) == Prog \o ": error: " \o msg
\* utils.errors.format(exc)
FormatValidationError == "validation"

CallStart ==
    /\ tokens = <<>>
    /\ arguments = <<>>
    /\ config = <<>>
    /\ root_validated = FALSE
    /\ root_input = <<>>
    /\ result = NoneV
    /\ message = ""
    /\ stderr = <<>>
    /\ exit_status = -1
    /\ raised = NoException
    /\ usage_calls = 0

\* a try block around the validation of the root only
InTry_RootOnly(place) == place = "root"

\* whether the try block of parse_typed_args covers the validation at `place`
InTry(place) == place \in {"submodel", "root"}

\* a ValidationError raised at `place`: caught and handed to self.error, or not
OnValidationError(place) ==
    IF InTry(place)
    THEN /\ pc' = "error"
         /\ message' = FormatValidationError
         /\ UNCHANGED raised
    ELSE /\ pc' = "raised"
         /\ raised' = [type |-> "ValidationError", text |-> "validation"]
         /\ UNCHANGED message

\* parse_typed_args, lines 146-149: self.parse_args(args) and to_dict
ParseArgs ==
    /\ pc = "ready"
    /\ \E toks \in TokenLists(root) :
         LET r == parse_args(root, toks)
         IN  /\ tokens' = toks
             /\ IF r.ok
                THEN /\ arguments' = r.ns
                     /\ pc' = IF submodels # <<>> THEN "submodels" ELSE "root"
                     /\ UNCHANGED message
                ELSE /\ pc' = "error"
                     /\ message' = "arguments"
                     /\ UNCHANGED arguments
    /\ UNCHANGED <<exit_on_error, ctorVars, config, root_validated, root_input,
                   result, stderr, exit_status, raised, usage_calls>>
    /\ UNCHANGED <<nestVars, valVars, typVars>>

\* a dict comprehension that leaves a failing submodel out and goes on
ValidateSubmodel_SkipsFailure ==
    /\ pc = "submodels"
    /\ LET k == Len(config) + 1
           r == model_validate(submodels[k][2], arguments, TRUE)
       IN  IF r.ok
           THEN /\ config' = Append(config, <<submodels[k][1], r.value>>)
                /\ pc' = IF k = Len(submodels) THEN "root" ELSE "submodels"
           ELSE /\ config' = Append(config, <<submodels[k][1], NoneV>>)
                /\ pc' = IF k = Len(submodels) THEN "root" ELSE "submodels"
    /\ UNCHANGED <<message, raised>>
    /\ UNCHANGED <<exit_on_error, ctorVars, tokens, arguments, root_validated,
                   root_input, result, stderr, exit_status, usage_calls>>
    /\ UNCHANGED <<nestVars, valVars, typVars>>

\* parse_typed_args, lines 154-157: the next entry of the dict comprehension
ValidateSubmodel ==
    /\ pc = "submodels"
    /\ LET k == Len(config) + 1
           r == model_validate(submodels[k][2], arguments, TRUE)
       IN  IF r.ok
           THEN /\ config' = Append(config, <<submodels[k][1], r.value>>)
                /\ pc' = IF k = Len(submodels) THEN "root" ELSE "submodels"
                /\ UNCHANGED <<message, raised>>
           ELSE /\ OnValidationError("submodel")
                /\ UNCHANGED config
    /\ UNCHANGED <<exit_on_error, ctorVars, tokens, arguments, root_validated,
                   root_input, result, stderr, exit_status, usage_calls>>
    /\ UNCHANGED <<nestVars, valVars, typVars>>


\* the root validated with the per-submodel mapping whether or not any
\* submodel was tracked
RootMapping_AlwaysConfig == config

\* the mapping the root model is validated with (lines 153, 158, 159)
RootMapping == IF submodels # <<>> THEN config ELSE arguments

\* parse_typed_args, lines 158-159: self.model.model_validate(...) and return
ValidateRoot ==
    /\ pc = "root"
    /\ root_validated' = TRUE
    /\ root_input' = RootMapping
    /\ LET r == model_validate(root, RootMapping, TRUE)
       IN  IF r.ok
           THEN /\ result' = r.value
                /\ pc' = "returned"
                /\ UNCHANGED <<message, raised>>
           ELSE /\ OnValidationError("root")
                /\ UNCHANGED result
    /\ UNCHANGED <<exit_on_error, ctorVars, tokens, arguments, config, stderr,
                   exit_status, usage_calls>>
    /\ UNCHANGED <<nestVars, valVars, typVars>>

\* error, line 206: self.print_usage(sys.stderr)
PrintUsage ==
    /\ pc = "error"
    /\ stderr' = Append(stderr, "usage")
    /\ usage_calls' = usage_calls + 1
    /\ pc' = "usage_printed"
    /\ UNCHANGED <<exit_on_error, ctorVars, tokens, arguments, config,
                   root_validated, root_input, result, message, exit_status, raised>>
    /\ UNCHANGED <<nestVars, valVars, typVars>>


\* error() that exits whatever exit_on_error says
ExitOrRaise_AlwaysExits ==
    /\ pc = "usage_printed"
    /\ stderr' = Append(stderr, ErrorText(message))
    /\ exit_status' = EXIT_ERROR
    /\ pc' = "exited"
    /\ UNCHANGED raised
    /\ UNCHANGED <<exit_on_error, ctorVars, tokens, arguments, config,
                   root_validated, root_input, result, message, usage_calls>>
    /\ UNCHANGED <<nestVars, valVars, typVars>>

\* error, lines 209-213: self.exit(EXIT_ERROR, text) writes the text to stderr
\* and exits; otherwise argparse.ArgumentError(None, text) is raised
ExitOrRaise ==
    /\ pc = "usage_printed"
    /\ IF exit_on_error
       THEN /\ stderr' = Append(stderr, ErrorText(message))
            /\ exit_status' = EXIT_ERROR
            /\ pc' = "exited"
            /\ UNCHANGED raised
       ELSE /\ raised' = [type |-> "ArgumentError", text |-> ErrorText(message)]
            /\ pc' = "raised"
            /\ UNCHANGED <<stderr, exit_status>>
    /\ UNCHANGED <<exit_on_error, ctorVars, tokens, arguments, config,
                   root_validated, root_input, result, message, usage_calls>>
    /\ UNCHANGED <<nestVars, valVars, typVars>>

\* the caller got an instance or caught the exception, and calls again
NextCall ==
    /\ pc \in {"returned", "raised"}
    /\ pc' = "ready"
    /\ tokens' = <<>>
    /\ arguments' = <<>>
    /\ config' = <<>>
    /\ root_validated' = FALSE
    /\ root_input' = <<>>
    /\ result' = NoneV
    /\ message' = ""
    /\ stderr' = <<>>
    /\ exit_status' = -1
    /\ raised' = NoException
    /\ usage_calls' = 0
    /\ UNCHANGED <<exit_on_error, ctorVars>>
    /\ UNCHANGED <<nestVars, valVars, typVars>>

(***************************************************************************)
(* _NestedArgumentParser.__init__: Rebuild, Prune, Resolve.                *)
(***************************************************************************)
RECURSIVE GetPathFrom(_, _, _, _)
GetPathFrom(cur, path, i, default) ==
    IF i > Len(path) THEN cur
    ELSE IF cur.t = "dict" /\ HasKey(cur.items, path[i])
    THEN GetPathFrom(Lookup(cur.items, path[i]), path, i + 1, default)
    ELSE default
\* boltons get_path(root, path, default)
get_path(args, path, default) == GetPathFrom(DictV(args), path, 1, default)

\* the value _get_nested_model_fields records for a scalar field (lines 60-75);
\* parent is <<>> for None
LeafValue(args, parent, key) ==
    LET value == IF HasKey(args, key) THEN Lookup(args, key) ELSE NoneV
    IN  IF parent = <<>> THEN value
        ELSE LET full == get_path(args, Append(parent, key), value)
             IN  IF full = NoneV
                 THEN get_path(args, <<parent[1], key>>, full)
                 ELSE full

RECURSIVE _get_nested_model_fields(_, _, _)
_get_nested_model_fields(args, m, parent) ==
    LET fs == Fields(m)
    IN  [i \in 1..Len(fs) |->
           IF is_model_field(fs[i])
           THEN <<fs[i].name,
                  DictV(_get_nested_model_fields(args, fs[i].model,
                                                 Append(parent, fs[i].name)))>>
           ELSE <<fs[i].name, LeafValue(args, parent, fs[i].name)>>]

RECURSIVE SetsSubcommand(_)
\* whether the traversal of m sets self.subcommand (lines 46-48)
SetsSubcommand(m) ==
    \E f \in Range(Fields(m)) :
        is_model_field(f) /\ (is_subcommand(f.model) \/ SetsSubcommand(f.model))


\* a visit function that drops None only
should_keep_NoneOnly(value) == value.t # "none"

\* _remove: the visit function of the remap (lines 80-89); str, list and dict
\* are Containers
should_keep(value) ==
    IF value.t # "none"
    THEN IF value.t = "str" THEN value.s # ""
         ELSE IF value.t \in {"dict", "list"} THEN Len(value.items) > 0
         ELSE TRUE
    ELSE FALSE

RECURSIVE Remap(_)
\* boltons remap(value, visit=_remove): the children of a mapping or sequence
\* are remapped first, then visited with their new value
Remap(value) ==
    IF value.t \in {"dict", "list"}
    THEN LET new == [i \in 1..Len(value.items) |->
                        <<value.items[i][1], Remap(value.items[i][2])>>]
             keep(item) == should_keep(item[2])
         IN  [value EXCEPT !.items = SelectSeq(new, keep)]
    ELSE value

_remove_null_leaves(sch) == Remap(DictV(sch)).items

\* _unset_subcommands (line 94)
_unset_subcommands(sch, cmd) ==
    LET is_command(item) == item[1] = cmd
    IN  SelectSeq(sch, is_command)

NestIdle ==
    /\ npc = "off"
    /\ nmodel = ""
    /\ ntokens = <<>>
    /\ nargs = <<>>
    /\ nsubcommand = FALSE
    /\ rebuilt = <<>>
    /\ pruned = <<>>
    /\ schema = <<>>
    /\ command = ""

NestInit ==
    /\ npc = "namespace"
    /\ nmodel \in ParserModels
    /\ ntokens = <<>>
    /\ nargs = <<>>
    /\ nsubcommand = FALSE
    /\ rebuilt = <<>>
    /\ pruned = <<>>
    /\ schema = <<>>
    /\ command = ""

\* the namespace handed to _NestedArgumentParser: one the parser of the model
\* produced from a token list; lines 22-24
NestCollect ==
    /\ npc = "namespace"
    /\ \E toks \in TokenLists(nmodel) :
         /\ parse_args(nmodel, toks).ok
         /\ ntokens' = toks
         /\ nargs' = parse_args(nmodel, toks).ns
    /\ nsubcommand' = FALSE
    /\ npc' = "rebuild"
    /\ UNCHANGED <<nmodel, rebuilt, pruned, schema, command>>
    /\ UNCHANGED <<parserVars, valVars, typVars>>

\* line 25: Rebuild
NestRebuild ==
    /\ npc = "rebuild"
    /\ schema' = _get_nested_model_fields(nargs, nmodel, <<>>)
    /\ rebuilt' = schema'
    /\ nsubcommand' = SetsSubcommand(nmodel)
    /\ npc' = "prune"
    /\ UNCHANGED <<nmodel, ntokens, nargs, pruned, command>>
    /\ UNCHANGED <<parserVars, valVars, typVars>>

\* line 26: Prune
NestPrune ==
    /\ npc = "prune"
    /\ schema' = _remove_null_leaves(schema)
    /\ pruned' = schema'
    /\ npc' = IF nsubcommand THEN "resolve" ELSE "done"
    /\ UNCHANGED <<nmodel, ntokens, nargs, nsubcommand, rebuilt, command>>
    /\ UNCHANGED <<parserVars, valVars, typVars>>

\* the command of line 37: the first key of self.args
FirstKey(args) == Keys(args)[1]

\* lines 28-38: Resolve; list(self.args.keys())[0] raises on an empty mapping
NestResolve ==
    /\ npc = "resolve"
    /\ IF nargs = <<>>
       THEN /\ npc' = "raised"
            /\ UNCHANGED <<schema, command>>
       ELSE /\ command' = FirstKey(nargs)
            /\ schema' = _unset_subcommands(schema, command')
            /\ npc' = "done"
    /\ UNCHANGED <<nmodel, ntokens, nargs, nsubcommand, rebuilt, pruned>>
    /\ UNCHANGED <<parserVars, valVars, typVars>>

\* another namespace is unflattened
NestAgain ==
    /\ npc \in {"done", "raised"}
    /\ npc' = "namespace"
    /\ ntokens' = <<>>
    /\ nargs' = <<>>
    /\ nsubcommand' = FALSE
    /\ rebuilt' = <<>>
    /\ pruned' = <<>>
    /\ schema' = <<>>
    /\ command' = ""
    /\ UNCHANGED nmodel
    /\ UNCHANGED <<parserVars, valVars, typVars>>

(***************************************************************************)
(* One application of a converter built by as_validator.                   *)
(***************************************************************************)
MaxInt == 2
InputValues ==
    {NoneV, ListV(<<>>), ListV(<< <<"", StrV("x")>> >>), DictV(<<>>),
     DictV(<< <<"k", StrV("")>> >>)}
        \cup {IntV(i) : i \in 0..MaxInt}
        \cup {StrV(x) : x \in {"", "7", "x", "sub", "opts", "--bogus"}}

ValIdle ==
    /\ vpc = "off"
    /\ vcaster = ""
    /\ vvalue = NoneV
    /\ vresult = [raises |-> FALSE, value |-> NoneV]

ValInit ==
    /\ vpc = "call"
    /\ vcaster \in Casters
    /\ vvalue \in InputValues
    /\ vresult = [raises |-> FALSE, value |-> NoneV]

ApplyValidator ==
    /\ vpc = "call"
    /\ vresult' = as_validator(vcaster, vvalue)
    /\ vpc' = "done"
    /\ UNCHANGED <<vcaster, vvalue>>
    /\ UNCHANGED <<parserVars, nestVars, typVars>>

ValidatorAgain ==
    /\ vpc = "done"
    /\ vpc' = "call"
    /\ vcaster' \in Casters
    /\ vvalue' \in InputValues
    /\ vresult' = [raises |-> FALSE, value |-> NoneV]
    /\ UNCHANGED <<parserVars, nestVars, typVars>>

(***************************************************************************)
(* utils.types.is_field_a.  Python objects an annotation or a target can   *)
(* be: classes (instances of `type`) and objects that are not classes      *)
(* (None, special forms, generic aliases, a forward reference).  Proto is  *)
(* a typing.Protocol class without @runtime_checkable: a class whose       *)
(* instance and subclass checks raise TypeError.                           *)
(***************************************************************************)
TypeObjects ==
    {"object", "type", "int", "bool", "list", "dict", "Container", "Mapping",
     "BaseModel", "Sub", "Enum", "Color", "EnumMeta", "Proto"}
NonTypeObjects ==
    {"None", "Union", "Literal", "List[int]", "Dict[str, int]", "Optional[int]",
     "Literal['a']", "'int'"}
Objects == TypeObjects \cup NonTypeObjects

\* isinstance(t, type)
IsType(o) == o \in TypeObjects
\* typing.get_origin
get_origin(a) ==
    CASE a = "List[int]" -> "list"
      [] a = "Dict[str, int]" -> "dict"
      [] a = "Optional[int]" -> "Union"
      [] a = "Literal['a']" -> "Literal"
      [] OTHER -> "None"
\* the direct superclasses of a class, registrations with an ABC included
Bases(c) ==
    CASE c = "object" -> {}
      [] c = "bool" -> {"int"}
      [] c = "list" -> {"Container"}
      [] c = "dict" -> {"Mapping"}
      [] c = "Mapping" -> {"Container"}
      [] c = "Sub" -> {"BaseModel"}
      [] c = "Color" -> {"Enum"}
      [] c = "EnumMeta" -> {"type"}
      [] OTHER -> {"object"}
\* type(c) of a class, up to the metaclasses that are not among Objects
Meta(c) == IF c \in {"Enum", "Color"} THEN "EnumMeta" ELSE "type"

RECURSIVE Subclass(_, _)
\* c is b or inherits from b
Subclass(c, b) == c = b \/ \E d \in Bases(c) : Subclass(d, b)

TypeError == [raises |-> TRUE, value |-> FALSE]
Returns(b) == [raises |-> FALSE, value |-> b]

\* a class whose __instancecheck__ and __subclasscheck__ raise TypeError
RaisesOnCheck(t) == t = "Proto"

RECURSIVE isinstance(_, _, _)
\* isinstance(obj, types) for a class obj and a tuple of classes, from its
\* i-th element on: the first match answers; a Protocol class raises
isinstance(obj, types, i) ==
    IF i > Len(types) THEN Returns(FALSE)
    ELSE IF RaisesOnCheck(types[i]) THEN TypeError
    ELSE IF Subclass(Meta(obj), types[i]) THEN Returns(TRUE)
    ELSE isinstance(obj, types, i + 1)

RECURSIVE issubclass(_, _, _)
\* issubclass(obj, types), likewise
issubclass(obj, types, i) ==
    IF i > Len(types) THEN Returns(FALSE)
    ELSE IF RaisesOnCheck(types[i]) THEN TypeError
    ELSE IF Subclass(obj, types[i]) THEN Returns(TRUE)
    ELSE issubclass(obj, types, i + 1)

\* line 47: get_origin(field.info.annotation) or field.info.annotation
field_type(annotation) ==
    IF get_origin(annotation) # "None" THEN get_origin(annotation) ELSE annotation

\* is_field_a without the is_valid guard of line 52: isinstance and issubclass
\* are handed whatever the caller gave
is_field_a_Unguarded(annotation, types) ==
    LET ft == field_type(annotation)
    IN  IF ft \in Range(types) THEN Returns(TRUE)
        ELSE IF ~IsType(ft) \/ \E t \in Range(types) : ~IsType(t) THEN TypeError
        ELSE IF isinstance(ft, types, 1).raises THEN TypeError
        ELSE IF isinstance(ft, types, 1).value THEN Returns(TRUE)
        ELSE issubclass(ft, types, 1)

\* is_field_a(field, types), lines 43-59, on the field's annotation; types is
\* the tuple of line 44: what it returns, or that it raises
is_field_a(annotation, types) ==
    LET ft == field_type(annotation)
        is_valid == \A t \in Range(types) \cup {ft} : IsType(t)
    IN  IF ft \in Range(types) THEN Returns(TRUE)
        ELSE IF ~is_valid THEN Returns(FALSE)
        ELSE IF isinstance(ft, types, 1).raises THEN TypeError
        ELSE IF isinstance(ft, types, 1).value THEN Returns(TRUE)
        ELSE issubclass(ft, types, 1)

\* the targets a call names: one object, or a tuple of up to MaxTargets
MaxTargets == 2
RECURSIVE Tuples(_)
Tuples(k) ==
    IF k = 0 THEN {<<>>}
    ELSE Tuples(k - 1) \cup {Append(t, o) : t \in Tuples(k - 1), o \in Objects}
TargetArgs ==
    {[tuple |-> TRUE, items |-> t] : t \in Tuples(MaxTargets)}
        \cup {[tuple |-> FALSE, items |-> <<o>>] : o \in Objects}

TypIdle ==
    /\ tpc = "off"
    /\ tannotation = "None"
    /\ ttypes = [tuple |-> TRUE, items |-> <<>>]
    /\ tresult = Returns(FALSE)

TypInit ==
    /\ tpc = "idle"
    /\ tannotation = "None"
    /\ ttypes = [tuple |-> TRUE, items |-> <<>>]
    /\ tresult = Returns(FALSE)

\* a caller names a field and the targets; line 43-44 make the tuple
CallIsFieldA ==
    /\ tpc = "idle"
    /\ tpc' = "call"
    /\ tannotation' \in Objects
    /\ ttypes' \in TargetArgs
    /\ UNCHANGED tresult
    /\ UNCHANGED <<parserVars, nestVars, valVars>>

\* lines 46-59
ApplyIsFieldA ==
    /\ tpc = "call"
    /\ tresult' = is_field_a(tannotation, ttypes.items)
    /\ tpc' = "done"
    /\ UNCHANGED <<tannotation, ttypes>>
    /\ UNCHANGED <<parserVars, nestVars, valVars>>

\* the caller has the answer, or the exception
ReturnIsFieldA ==
    /\ tpc = "done"
    /\ tpc' = "idle"
    /\ tannotation' = "None"
    /\ ttypes' = [tuple |-> TRUE, items |-> <<>>]
    /\ tresult' = Returns(FALSE)
    /\ UNCHANGED <<parserVars, nestVars, valVars>>

ParserIdle ==
    /\ pc = "off"
    /\ exit_on_error = FALSE
    /\ root = ""
    /\ stack = <<>>
    /\ action_groups = <<>>
    /\ subcommands = NoDispatcher
    /\ ndispatchers = 0
    /\ arg_groups = <<>>
    /\ submodels = <<>>
    /\ registered = <<>>
    /\ CallStart

vars == <<parserVars, nestVars, valVars, typVars>>

\* the parser: construction, then calls of parse_typed_args
Init == InitParser /\ CallStart /\ NestIdle /\ ValIdle /\ TypIdle

Next ==
    \/ AddField
    \/ AddCommand
    \/ AddGroup
    \/ ReturnModel
    \/ ParseArgs
    \/ ValidateSubmodel
    \/ ValidateRoot
    \/ PrintUsage
    \/ ExitOrRaise
    \/ NextCall

Spec == Init /\ [][Next]_vars

\* the unflattening of parsed namespaces
InitNest == NestInit /\ ParserIdle /\ ValIdle /\ TypIdle

NextNest ==
    \/ NestCollect
    \/ NestRebuild
    \/ NestPrune
    \/ NestResolve
    \/ NestAgain

SpecNest == InitNest /\ [][NextNest]_vars

\* the converters
InitValidator == ValInit /\ ParserIdle /\ NestIdle /\ TypIdle

NextValidator ==
    \/ ApplyValidator
    \/ ValidatorAgain

SpecValidator == InitValidator /\ [][NextValidator]_vars

\* the type checks
InitTypes == TypInit /\ ParserIdle /\ NestIdle /\ ValIdle

NextTypes ==
    \/ CallIsFieldA
    \/ ApplyIsFieldA
    \/ ReturnIsFieldA

SpecTypes == InitTypes /\ [][NextTypes]_vars

(***************************************************************************)
(* Properties                                                              *)
(***************************************************************************)
Terminal == pc \in {"returned", "exited", "raised"}
CommandNames(m) == {CommandName(c) : c \in Range(CommandFields(m))}
NestBuilt == npc \in {"resolve", "done"}

C2_UsageThenExitOrRaise ==
    /\ pc = "usage_printed" => stderr = <<"usage">> /\ exit_status = -1
    /\ pc = "exited" =>
          /\ exit_on_error
          /\ stderr = <<"usage", ErrorText(message)>>
          /\ exit_status = EXIT_ERROR
          /\ raised = NoException
    /\ (pc = "raised" /\ usage_calls > 0) =>
          /\ ~exit_on_error
          /\ stderr = <<"usage">>
          /\ raised = [type |-> "ArgumentError", text |-> ErrorText(message)]
          /\ exit_status = -1
    /\ exit_status # -1 => exit_on_error /\ pc = "exited"

C2_Witness ==
    /\ pc = "exited"
    /\ exit_status = EXIT_ERROR
    /\ stderr = <<"usage", "prog: error: validation">>

\* the model has scalar fields only
FlatModel(m) == \A f \in Range(Fields(m)) : ~is_model_field(f)
RequiredFields(m) == {f \in Range(Fields(m)) : f.required}
\* the text the token list gives for a flag
TokenValue(f) == tokens[(CHOOSE i \in 1..Len(tokens) : tokens[i] = FlagName(f)) + 1]
\* the value of the field's type that a text denotes
Typed(f, text) == IF f.type = "int" /\ text = "7" THEN IntV(7) ELSE StrV(text)
\* the tokens are exactly the required flags, each with its value
OnlyRequiredFlags ==
    /\ Len(tokens) = 2 * Cardinality(RequiredFields(root))
    /\ \A f \in RequiredFields(root) :
          \E i \in 1..Len(tokens) : i % 2 = 1 /\ tokens[i] = FlagName(f)
\* the schema constructed directly from the required values
Constructed ==
    ObjV(root, [i \in 1..Len(Fields(root)) |->
                  LET f == Fields(root)[i]
                  IN  <<f.name, IF f.required THEN Typed(f, TokenValue(f))
                                ELSE f.default>>])

C4_SubmodelsBeforeRoot ==
    (submodels # <<>> /\ root_validated) =>
        /\ Len(config) = Len(submodels)
        /\ \A k \in 1..Len(submodels) :
              /\ config[k][1] = submodels[k][1]
              /\ model_validate(submodels[k][2], arguments, TRUE) = Ok(config[k][2])
        /\ root_input = config

C4_Witness ==
    /\ root = "Grouped"
    /\ pc = "returned"
    /\ tokens = <<"--level", "7">>
    /\ root_input = << <<"sub", ObjV("Sub", << <<"level", IntV(7)>>,
                                               <<"tag", StrV("t")>> >>)>> >>

RECURSIVE Omitted(_, _, _)
\* in the tree `tree` of model m, parsed into the namespace ns: every argument
\* group none of whose flags is in ns has no key
Omitted(m, ns, tree) ==
    \A f \in Range(Fields(m)) :
        is_model_field(f) =>
            LET below == IF HasKey(tree, f.name) /\ Lookup(tree, f.name).t = "dict"
                         THEN Lookup(tree, f.name).items ELSE <<>>
            IN  IF is_subcommand(f.model)
                THEN Omitted(f.model,
                             IF HasKey(ns, f.name) /\ Lookup(ns, f.name).t = "dict"
                             THEN Lookup(ns, f.name).items ELSE <<>>,
                             below)
                ELSE /\ (\A g \in Range(FlatFlags(f.model)) : ~HasKey(ns, g.name))
                           => ~HasKey(tree, f.name)
                     /\ Omitted(f.model, ns, below)

\* C5: a nested non-subcommand sub-model, at any depth, none of whose flags
\* is supplied has no key in the tree produced by Rebuild followed by Prune
C5_OmittedSubmodelAbsent == NestBuilt => Omitted(nmodel, nargs, pruned)

RECURSIVE NoNullOrEmpty(_)
NoNullOrEmpty(value) ==
    value.t \in {"dict", "list"} =>
        \A i \in 1..Len(value.items) :
            LET v == value.items[i][2]
            IN  /\ v.t # "none"
                /\ ~(v.t \in {"dict", "list"} /\ v.items = <<>>)
                /\ NoNullOrEmpty(v)

RECURSIVE AllNull(_)
\* nothing but None below (or at) value
AllNull(value) ==
    \/ value.t = "none"
    \/ /\ value.t \in {"dict", "list"}
       /\ \A i \in 1..Len(value.items) : AllNull(value.items[i][2])

\* C6: after Prune no key at any depth maps to None, to an empty mapping or to
\* an empty sequence, and a mapping whose children were all pruned is removed
\* from its parent
C6_NoNullNoEmptyAfterPrune ==
    NestBuilt =>
        /\ NoNullOrEmpty(DictV(pruned))
        /\ \A i \in 1..Len(rebuilt) :
              AllNull(rebuilt[i][2]) => ~HasKey(pruned, rebuilt[i][1])

C6_Witness ==
    /\ npc = "done"
    /\ nmodel = "Deep"
    /\ rebuilt = << <<"outer", DictV(<< <<"width", NoneV>>,
                       <<"inner", DictV(<< <<"leaf", NoneV>> >>)>> >>)>> >>
    /\ pruned = <<>>

\* the command the token list selected
Selected == {c \in CommandNames(nmodel) : HasKey(nargs, c)}

\* C7: with variant A selected, the final tree's top-level keys are a subset
\* of {A}, also when another variant's subtree was not empty after Rebuild
C7_OnlySelectedVariantKept ==
    (npc = "done" /\ nsubcommand) =>
        \A a \in Selected : KeySet(schema) \subseteq {a}

\* C8: the converter returns a non-text value unchanged, None for the empty
\* text, the caster's result when the caster succeeds, the raw text when the
\* caster raises, and never raises itself
C8_ConverterPassesThrough ==
    vpc = "done" =>
        /\ ~vresult.raises
        /\ vvalue.t # "str" => vresult.value = vvalue
        /\ vvalue = StrV("") => vresult.value = NoneV
        /\ (vvalue.t = "str" /\ vvalue.s # "" /\ ~Cast(vcaster, vvalue.s).raises)
              => vresult.value = Cast(vcaster, vvalue.s).value
        /\ (vvalue.t = "str" /\ vvalue.s # "" /\ Cast(vcaster, vvalue.s).raises)
              => vresult.value = vvalue

C8_Witness ==
    /\ vpc = "done"
    /\ vcaster = "literal"
    /\ vvalue = StrV("x")
    /\ vresult = [raises |-> FALSE, value |-> StrV("x")]

\* C9: at most one dispatcher is ever created, it is required, and its group
\* is the first of the parser's action groups, also once the argument groups
\* of nested sub-models are added
C9_OneDispatcherFirst ==
    /\ ndispatchers <= 1
    /\ subcommands.exists <=> ndispatchers = 1
    /\ subcommands.exists =>
          /\ subcommands.required
          /\ action_groups[1] = COMMANDS
          /\ \A i \in 2..Len(action_groups) : action_groups[i] # COMMANDS
    /\ ~subcommands.exists => COMMANDS \notin Range(action_groups)
    /\ (pc # "construct" /\ pc # "off") =>
          (subcommands.exists <=> CommandFields(root) # <<>>)

C9_Witness ==
    /\ pc = "ready"
    /\ root = "Tool"
    /\ subcommands.choices = <<"build", "deploy">>
    /\ action_groups = <<COMMANDS, "positional arguments", "options", HELP,
                         "OPTIONS">>

\* C10: the name Resolve filters the top-level mapping by is the name of the
\* selected subcommand, also when the flat mapping holds root-level flags
C10_FilterNameIsSelectedCommand ==
    (npc = "done" /\ nsubcommand) => command \in Selected

\* the value at a path of the flat mapping, None when the path leads nowhere
PathValue(args, path) == get_path(args, path, NoneV)
\* full path first, then the two-element path, then nothing
FullThenShort(args, parent, key) ==
    IF parent = <<>> THEN PathValue(args, <<key>>)
    ELSE IF PathValue(args, Append(parent, key)) # NoneV
    THEN PathValue(args, Append(parent, key))
    ELSE PathValue(args, <<parent[1], key>>)

RECURSIVE LeavesFullThenShort(_, _, _, _)
\* every scalar leaf of the tree of model m holds FullThenShort
LeavesFullThenShort(args, m, parent, tree) ==
    \A f \in Range(Fields(m)) :
        /\ HasKey(tree, f.name)
        /\ IF is_model_field(f)
           THEN /\ Lookup(tree, f.name).t = "dict"
                /\ LeavesFullThenShort(args, f.model, Append(parent, f.name),
                                       Lookup(tree, f.name).items)
           ELSE Lookup(tree, f.name) = FullThenShort(args, parent, f.name)

NestRebuilt == npc \in {"prune", "resolve", "done", "raised"}

\* C11: Rebuild records for a scalar field of a nested model at path P the
\* flat mapping's value at P + (field name) when there is one, otherwise the
\* value at (first segment of P, field name), otherwise nothing; for a scalar
\* field of the root model, the value under the field name or nothing
C11_FullPathThenShortPathElseNothing ==
    NestRebuilt => LeavesFullThenShort(nargs, nmodel, <<>>, rebuilt)

\* the field's type is one of the targets
IdenticalToOne == field_type(tannotation) \in Range(ttypes.items)
\* the field's type and every target are classes
AllTypes == \A o \in Range(ttypes.items) \cup {field_type(tannotation)} : IsType(o)
\* the field's type, a class, is an instance of one of the targets
InstanceOfOne ==
    \E t \in Range(ttypes.items) : Subclass(Meta(field_type(tannotation)), t)
\* the field's type is a subclass of one of the targets
SubclassOfOne ==
    \E t \in Range(ttypes.items) : Subclass(field_type(tannotation), t)

\* C12 as stated: is_field_a never raises, whatever the annotation and the
\* targets, and returns true exactly when the field's type (the origin of the
\* annotation if it has one, else the annotation) is one of the targets, an
\* instance of one or a subclass of one, the last two counting as false when
\* the field's type or a target is not a class
C12_NeverRaisesIdentityInstanceSubclass ==
    tpc = "done" =>
        /\ ~tresult.raises
        /\ tresult.value <=>
              \/ IdenticalToOne
              \/ AllTypes /\ InstanceOfOne
              \/ AllTypes /\ SubclassOfOne

\* C12, amended: is_field_a does not raise when the field's type or a target
\* is not a class, and then returns true exactly on identity; it raises only
\* when all of them are classes, none is the field's type, and a target is a
\* class whose own instance check raises; whenever it returns, it returns
\* true exactly when the field's type is one of the targets, an instance of
\* one or a subclass of one
C12_RaisesOnlyFromTargetCheck ==
    tpc = "done" =>
        /\ ~AllTypes => (~tresult.raises /\ (tresult.value <=> IdenticalToOne))
        /\ tresult.raises =>
              /\ AllTypes
              /\ ~IdenticalToOne
              /\ \E t \in Range(ttypes.items) : RaisesOnCheck(t)
        /\ ~tresult.raises =>
              (tresult.value <=>
                  \/ IdenticalToOne
                  \/ AllTypes /\ InstanceOfOne
                  \/ AllTypes /\ SubclassOfOne)

C12_Witness ==
    /\ tpc = "done"
    /\ tannotation = "Optional[int]"
    /\ ttypes = [tuple |-> TRUE, items |-> <<"int", "Proto">>]
    /\ tresult = Returns(FALSE)

\* the model declares a scalar field and a nested non-subcommand sub-model
ScalarAndGroup(m) ==
    /\ \E f \in Range(Fields(m)) : ~is_model_field(f)
    /\ \E f \in Range(Fields(m)) : is_model_field(f) /\ ~is_subcommand(f.model)
\* the scalar fields of the root whose flag the token list supplied
SuppliedScalars ==
    {f \in Range(Fields(root)) : ~is_model_field(f) /\ HasKey(arguments, f.name)}

\* C13: for a root schema with a top-level scalar field and a nested
\* non-subcommand sub-model, the returned instance holds, in the top-level
\* scalar field, the value supplied for its flag, and the supplied top-level
\* values are part of the mapping the root model validates
C13_TopLevelScalarKept ==
    (pc = "returned" /\ ScalarAndGroup(root)) =>
        \A f \in SuppliedScalars :
            /\ HasKey(root_input, f.name)
            /\ Lookup(result.items, f.name) = Typed(f, Lookup(arguments, f.name).s)

\* a non-subcommand sub-model nested inside a non-subcommand sub-model
IsGroup(f) == is_model_field(f) /\ ~is_subcommand(f.model)
DeepNest(m) ==
    \E f \in Range(Fields(m)) :
        IsGroup(f) /\ \E g \in Range(Fields(f.model)) : IsGroup(g)

RECURSIVE LeafPaths(_, _)
\* the scalar fields below m through non-subcommand sub-models, each with its
\* position in the nested instance
LeafPaths(m, prefix) ==
    UNION {IF IsGroup(f) THEN LeafPaths(f.model, Append(prefix, f.name))
           ELSE IF is_model_field(f) THEN {}
           ELSE {[path |-> Append(prefix, f.name), field |-> f]} :
           f \in Range(Fields(m))}

RECURSIVE ObjAt(_, _, _)
\* the value at a position of a nested instance
ObjAt(v, path, i) ==
    IF i > Len(path) THEN v
    ELSE IF v.t = "obj" /\ HasKey(v.items, path[i])
    THEN ObjAt(Lookup(v.items, path[i]), path, i + 1)
    ELSE NoneV

\* the text is a valid value of the field's type
ValidText(f, v) == f.type = "int" => v = StrV("7")
\* every required flag is supplied and every supplied value is valid
ValidInput ==
    /\ parse_args(root, tokens).ok
    /\ \A f \in Range(FlatFlags(root)) :
          HasKey(arguments, f.name) => ValidText(f, Lookup(arguments, f.name))

\* C14: for a schema with a non-subcommand sub-model nested inside another
\* one, a token list with valid values for all required flags makes
\* parse_typed_args return an instance in which each supplied leaf value sits
\* at its nested position, the inner model's validated object being placed
\* under the outer model's field and not under the root
C14_DeepLeavesAtNestedPosition ==
    (Terminal /\ DeepNest(root) /\ ValidInput) =>
        /\ pc = "returned"
        /\ KeySet(root_input) \subseteq {f.name : f \in Range(Fields(root))}
        /\ \A lp \in LeafPaths(root, <<>>) :
              HasKey(arguments, lp.field.name) =>
                  ObjAt(result, lp.path, 1)
                      = Typed(lp.field, Lookup(arguments, lp.field.name).s)

\* the scalar fields of the root model whose flag the token list supplied
SuppliedRootScalars ==
    {f \in Range(Fields(nmodel)) : ~is_model_field(f) /\ HasKey(nargs, f.name)}

\* C15: for a root schema with subcommand variants and a root-level scalar
\* field, Resolve removes only the keys of the non-selected variants: a value
\* supplied for the root-level scalar is still in the final tree, unchanged,
\* and so is the selected variant's subtree
C15_ResolveKeepsRootScalars ==
    (npc = "done" /\ nsubcommand) =>
        /\ KeySet(pruned) \ KeySet(schema) \subseteq CommandNames(nmodel) \ Selected
        /\ \A f \in SuppliedRootScalars :
              /\ HasKey(schema, f.name)
              /\ Lookup(schema, f.name) = Lookup(pruned, f.name)
        /\ \A a \in Selected :
              HasKey(pruned, a) =>
                  /\ HasKey(schema, a)
                  /\ Lookup(schema, a) = Lookup(pruned, a)

====
